---- MODULE Spec2Model ----
(***************************************************************************)
(* Model of cppcore/src/system/Foundation.cpp (pybinding): the edge        *)
(* trimming pass of a Foundation (count_neighbors, clear_neighbors,        *)
(* trim_edges) and the Hamiltonian index assignment (HamiltonianIndices).  *)
(*                                                                         *)
(* A Foundation is a box of size[0] x size[1] x size[2] unit cells with    *)
(* size_n sublattices per cell; a site is addressed by its flat index.     *)
(* The recursion of clear_neighbors is modelled by an explicit call stack, *)
(* one frame per active call, one step per hopping of for_each_neighbour.  *)
(***************************************************************************)
EXTENDS Integers, Sequences, FiniteSets, TLC

VARIABLES
    lattice,          \* Foundation::lattice: sublattices (hopping lists), min_neighbours
    size,             \* Foundation::size, an Index3D <<a, b, c>>
    is_valid,         \* Foundation::is_valid, flat index -> BOOLEAN
    neighbor_count,   \* the local array of trim_edges, flat index -> Int
    stack,            \* active calls of clear_neighbors, innermost last
    visited,          \* sites the loop of trim_edges has passed
    pc,               \* "start", "trim", "trimmed", "indexed"
    pass,             \* "first", "second" (trim of a trimmed Foundation), "reordered"
    init_valid,       \* is_valid as given by shape.contains (history)
    first_valid,      \* is_valid at the end of the first pass (history)
    propagated,       \* per site: runs of the neighbour loop in this pass (history)
    out_of_order,     \* a site or a hopping was taken out of its turn (history)
    indices,          \* HamiltonianIndices::indices
    num_valid_sites   \* HamiltonianIndices::num_valid_sites

vars == <<lattice, size, is_valid, neighbor_count, stack, visited, pc, pass,
          init_valid, first_valid, propagated, out_of_order, indices,
          num_valid_sites>>

(***************************************************************************)
(* Bounds of the checked instances.                                        *)
(***************************************************************************)
MaxSites == 5            \* boxes of the general family hold at most this many sites
MaxMinNeighbours == 3    \* lattice.min_neighbours ranges over 0 .. MaxMinNeighbours
MaxSquare == 3           \* square boxes of the corner family are at most MaxSquare^2
MaxSitesAnyOrder == 3    \* boxes trimmed in every order hold at most this many sites

(***************************************************************************)
(* Lattices: one hopping list per sublattice (sub_id 0 is the first).      *)
(***************************************************************************)
Hop(da, db, to) == [relative_index |-> <<da, db, 0>>, to_sublattice |-> to]

\* 1D chain, one sublattice, hoppings to the relative indices +1 and -1
ChainHoppings == << <<Hop(1, 0, 0), Hop(-1, 0, 0)>> >>
\* 1D chain with next-nearest hoppings as well
LongChainHoppings == << <<Hop(1, 0, 0), Hop(-1, 0, 0), Hop(2, 0, 0), Hop(-2, 0, 0)>> >>
\* 1D chain whose only rule points to +1: a rule without its reverse
DirectedHoppings == << <<Hop(1, 0, 0)>> >>
\* 1D two-sublattice chain: A-B inside a cell and between adjacent cells
DimerHoppings == << <<Hop(0, 0, 1), Hop(-1, 0, 1)>>, <<Hop(0, 0, 0), Hop(1, 0, 0)>> >>
\* 2D square lattice, one sublattice, four hoppings
SquareHoppings == << <<Hop(1, 0, 0), Hop(-1, 0, 0), Hop(0, 1, 0), Hop(0, -1, 0)>> >>

Lattices1D == {ChainHoppings, LongChainHoppings, DirectedHoppings, DimerHoppings}

MakeLattice(subs, min) == [sublattices |-> subs, min_neighbours |-> min]

\* Every hopping rule has its reverse rule on the target sublattice.
Symmetric(lat) ==
    \A s \in 1..Len(lat.sublattices) :
        \A h \in 1..Len(lat.sublattices[s]) :
            LET hop == lat.sublattices[s][h]
                back == lat.sublattices[hop.to_sublattice + 1]
                Rev(r) == /\ r.to_sublattice = s - 1
                          /\ \A d \in 1..3 : r.relative_index[d] = -hop.relative_index[d]
            IN  Cardinality({k \in 1..Len(back) : Rev(back[k])})
                  = Cardinality({k \in 1..Len(lat.sublattices[s]) :
                                    lat.sublattices[s][k] = hop})

(***************************************************************************)
(* Foundation geometry.                                                    *)
(***************************************************************************)
size_n == Len(lattice.sublattices)
num_sites == size[1] * size[2] * size[3] * size_n
Sites == 0 .. (num_sites - 1)

\* Site::get_sublattice, Site::get_index, and the flat index of (index, sub)
get_sublattice(idx) == idx % size_n
get_index(idx) ==
    LET cell == idx \div size_n
    IN  << cell \div (size[2] * size[3]), (cell \div size[3]) % size[2], cell % size[3] >>
get_idx(index, sub) == ((index[1] * size[2] + index[2]) * size[3] + index[3]) * size_n + sub

Hoppings(idx) == lattice.sublattices[get_sublattice(idx) + 1]

\* index + hopping.relative_index
TargetIndex(idx, hop) == [d \in 1..3 |-> get_index(idx)[d] + hop.relative_index[d]]

\* any_of(index < 0) || any_of(index >= foundation.size.array())
OutOfBox(index) == \E d \in 1..3 : index[d] < 0 \/ index[d] >= size[d]

\* the Site handed to the lambda of for_each_neighbour for hopping h of site idx
Neighbor(idx, h) == get_idx(TargetIndex(idx, Hoppings(idx)[h]), Hoppings(idx)[h].to_sublattice)
HasNeighbor(idx, h) == ~OutOfBox(TargetIndex(idx, Hoppings(idx)[h]))

(***************************************************************************)
(* count_neighbors                                                         *)
(***************************************************************************)
EdgeReduction(idx) ==
    Cardinality({h \in 1..Len(Hoppings(idx)) : OutOfBox(TargetIndex(idx, Hoppings(idx)[h]))})

count_neighbors == [idx \in Sites |-> Len(Hoppings(idx)) - EdgeReduction(idx)]

(***************************************************************************)
(* clear_neighbors: the pieces of its body.                                *)
(***************************************************************************)
Frame(idx) == [site |-> idx, at |-> "entry", done |-> {}]
Top == stack[Len(stack)]
Pop == SubSeq(stack, 1, Len(stack) - 1)

\* Variants of the pieces below, each with one slip, used to show that the
\* properties depend on the piece.
NeighborNeverSkipped(n) == FALSE
DecrementedUp(cnt) == cnt + 1
BelowMinimumBeforeDecrement(cnt) == cnt + 1 < lattice.min_neighbours
BelowOrAtMinimum(cnt) == cnt <= lattice.min_neighbours
ClearedCountKept(cnt) == cnt
NeedsClearingAlways(idx) == TRUE

\* if (neighbor_count[site.get_idx()] == 0) return;
NothingToClear(idx) == neighbor_count[idx] = 0

\* if (!neighbor.is_valid()) return;
NeighborSkipped(n) == ~is_valid[n]

\* neighbor_count[neighbor_idx] -= 1;
Decremented(cnt) == cnt - 1

\* if (neighbor_count[neighbor_idx] < site.get_lattice().min_neighbours)
BelowMinimum(cnt) == cnt < lattice.min_neighbours

\* neighbor_count[site.get_idx()] = 0;
ClearedCount(cnt) == 0

\* if (!site.is_valid()) in the loop of trim_edges
NeedsClearing(idx) == ~is_valid[idx]

\* entry of a call: the early return, or the start of the neighbour loop
ClearEnter ==
    /\ pc = "trim" /\ stack # <<>> /\ Top.at = "entry"
    /\ IF NothingToClear(Top.site)
         THEN /\ stack' = Pop
              /\ UNCHANGED propagated
         ELSE /\ stack' = [stack EXCEPT ![Len(stack)].at = "loop"]
              /\ propagated' = [propagated EXCEPT ![Top.site] = @ + 1]
    /\ UNCHANGED <<lattice, size, is_valid, neighbor_count, visited, pc, pass,
                   init_valid, first_valid, out_of_order, indices, num_valid_sites>>

\* one iteration of for_each_neighbour: hopping h of the site of the innermost call
ClearNeighbor(h) ==
    /\ pc = "trim" /\ stack # <<>> /\ Top.at = "loop"
    /\ h \in (1..Len(Hoppings(Top.site))) \ Top.done
    /\ LET marked == [stack EXCEPT ![Len(stack)].done = @ \cup {h}]
           n == Neighbor(Top.site, h)
           cnt == Decremented(neighbor_count[n])
       IN  IF ~HasNeighbor(Top.site, h)
             THEN /\ stack' = marked
                  /\ UNCHANGED <<is_valid, neighbor_count>>
             ELSE IF NeighborSkipped(n)
               THEN /\ stack' = marked
                    /\ UNCHANGED <<is_valid, neighbor_count>>
               ELSE /\ neighbor_count' = [neighbor_count EXCEPT ![n] = cnt]
                    /\ IF BelowMinimum(cnt)
                         THEN /\ is_valid' = [is_valid EXCEPT ![n] = FALSE]
                              /\ stack' = Append(marked, Frame(n))
                         ELSE /\ stack' = marked
                              /\ UNCHANGED is_valid
    /\ UNCHANGED <<lattice, size, visited, pc, pass, init_valid, first_valid,
                   propagated, indices, num_valid_sites>>

\* the hopping for_each_neighbour takes next: the first one not yet taken
NextHopping == CHOOSE h \in (1..Len(Hoppings(Top.site))) \ Top.done :
                  \A k \in (1..Len(Hoppings(Top.site))) \ Top.done : h <= k

ClearNextNeighbor ==
    /\ pass \in {"first", "second"}
    /\ stack # <<>> /\ Top.at = "loop"
    /\ Top.done # 1..Len(Hoppings(Top.site))
    /\ ClearNeighbor(NextHopping)
    /\ UNCHANGED out_of_order

\* the end of the call: the loop is over
ClearFinish ==
    /\ pc = "trim" /\ stack # <<>> /\ Top.at = "loop"
    /\ Top.done = 1..Len(Hoppings(Top.site))
    /\ neighbor_count' = [neighbor_count EXCEPT ![Top.site] = ClearedCount(@)]
    /\ stack' = Pop
    /\ UNCHANGED <<lattice, size, is_valid, visited, pc, pass, init_valid,
                   first_valid, propagated, out_of_order, indices, num_valid_sites>>

(***************************************************************************)
(* trim_edges                                                              *)
(***************************************************************************)
\* auto neighbor_count = count_neighbors(foundation);
TrimBegin ==
    /\ pc = "start"
    /\ neighbor_count' = count_neighbors
    /\ visited' = {}
    /\ stack' = <<>>
    /\ propagated' = [idx \in Sites |-> 0]
    /\ pc' = "trim"
    /\ UNCHANGED <<lattice, size, is_valid, pass, init_valid, first_valid,
                   out_of_order, indices, num_valid_sites>>

\* one iteration of `for (auto& site : foundation)`
Visit(idx) ==
    /\ pc = "trim" /\ stack = <<>>
    /\ idx \in Sites \ visited
    /\ visited' = visited \cup {idx}
    /\ stack' = IF NeedsClearing(idx) THEN <<Frame(idx)>> ELSE <<>>
    /\ UNCHANGED <<lattice, size, is_valid, neighbor_count, pc, pass, init_valid,
                   first_valid, propagated, indices, num_valid_sites>>

\* the iterator of the Foundation runs in flat-index order
NextSite == CHOOSE idx \in Sites \ visited : \A k \in Sites \ visited : idx <= k

TrimVisit ==
    /\ pass \in {"first", "second"}
    /\ visited # Sites
    /\ Visit(NextSite)
    /\ UNCHANGED out_of_order

TrimEnd ==
    /\ pc = "trim" /\ stack = <<>>
    /\ visited = Sites
    /\ pc' = "trimmed"
    /\ first_valid' = IF pass = "first" THEN is_valid ELSE first_valid
    /\ UNCHANGED <<lattice, size, is_valid, neighbor_count, stack, visited, pass,
                   init_valid, propagated, out_of_order, indices, num_valid_sites>>

\* trim_edges called once more on the Foundation it has trimmed
TrimAgain ==
    /\ pc = "trimmed" /\ pass = "first"
    /\ pass' = "second"
    /\ pc' = "start"
    /\ UNCHANGED <<lattice, size, is_valid, neighbor_count, stack, visited,
                   init_valid, first_valid, propagated, out_of_order, indices,
                   num_valid_sites>>

(***************************************************************************)
(* HamiltonianIndices::HamiltonianIndices                                  *)
(***************************************************************************)
\* variant: the count is incremented before it is stored
AssignedIndexPreIncrement(n) == n + 1

\* indices[i] = num_valid_sites++ : the value stored is the old count
AssignedIndex(n) == n

RECURSIVE IndexLoop(_, _, _)
IndexLoop(i, ind, n) ==
    IF i >= num_sites
      THEN [indices |-> ind, num_valid_sites |-> n]
      ELSE IF is_valid[i]
        THEN IndexLoop(i + 1, [ind EXCEPT ![i] = AssignedIndex(n)], n + 1)
        ELSE IndexLoop(i + 1, ind, n)

HamiltonianIndices ==
    /\ pc \in {"start", "trimmed"}
    /\ LET r == IndexLoop(0, [idx \in Sites |-> -1], 0)
       IN  /\ indices' = r.indices
           /\ num_valid_sites' = r.num_valid_sites
    /\ pc' = "indexed"
    /\ UNCHANGED <<lattice, size, is_valid, neighbor_count, stack, visited, pass,
                   init_valid, first_valid, propagated, out_of_order>>

(***************************************************************************)
(* Initial states: a Foundation whose is_valid has just been assigned      *)
(* (all true by the Primitive constructor, shape.contains by the Shape     *)
(* constructor), before trim_edges.                                        *)
(***************************************************************************)
SitesOf(subs, sz) == 0 .. (sz[1] * sz[2] * sz[3] * Len(subs) - 1)

InitWith(subs, sz, min, valid) ==
    /\ lattice = MakeLattice(subs, min)
    /\ size = sz
    /\ is_valid = valid
    /\ init_valid = valid
    /\ first_valid = valid
    /\ neighbor_count = [idx \in SitesOf(subs, sz) |-> 0]
    /\ propagated = [idx \in SitesOf(subs, sz) |-> 0]
    /\ indices = [idx \in SitesOf(subs, sz) |-> -1]
    /\ num_valid_sites = 0
    /\ stack = <<>>
    /\ visited = {}
    /\ pc = "start"
    /\ pass = "first"
    /\ out_of_order = FALSE

\* boxes of at most max sites, every is_valid array
Boxes(subs, max) ==
    {sz \in ((1..max) \X (1..max) \X {1}) :
        /\ sz[1] * sz[2] * Len(subs) <= max
        /\ (subs \in Lattices1D => sz[2] = 1)}

InitBoxes(max) ==
    \E subs \in Lattices1D \cup {SquareHoppings} :
        \E sz \in Boxes(subs, max), min \in 0..MaxMinNeighbours :
            \E valid \in [SitesOf(subs, sz) -> BOOLEAN] :
                InitWith(subs, sz, min, valid)

InitGeneral == InitBoxes(MaxSites)

\* square boxes up to MaxSquare x MaxSquare with at most one site, a corner, invalid
Corners(sz) == {((a * sz[2]) + b) : a \in {0, sz[1] - 1}, b \in {0, sz[2] - 1}}

InitCorner ==
    \E sz \in ((2..MaxSquare) \X (2..MaxSquare) \X {1}), min \in 0..MaxMinNeighbours :
        \E invalid \in {{}} \cup {{c} : c \in Corners(sz)} :
            InitWith(SquareHoppings, sz, min,
                     [idx \in SitesOf(SquareHoppings, sz) |-> idx \notin invalid])

Init == InitGeneral \/ InitCorner

Next ==
    \/ TrimBegin
    \/ TrimVisit
    \/ ClearEnter
    \/ ClearNextNeighbor
    \/ ClearFinish
    \/ TrimEnd
    \/ TrimAgain
    \/ HamiltonianIndices

Spec == Init /\ [][Next]_vars

\* the program runs on until it has nothing left to do
FairSpec == Spec /\ WF_vars(Next)

(***************************************************************************)
(* The trimming pass with the sites and the hoppings taken in any order:   *)
(* after the pass in the order of the code, the Foundation is given its    *)
(* first is_valid again and trimmed once more, each site of the loop of    *)
(* trim_edges and each hopping of for_each_neighbour chosen freely.        *)
(***************************************************************************)
Retrim ==
    /\ pc = "trimmed" /\ pass = "first"
    /\ pass' = "reordered"
    /\ is_valid' = init_valid
    /\ pc' = "start"
    /\ UNCHANGED <<lattice, size, neighbor_count, stack, visited, init_valid,
                   first_valid, propagated, out_of_order, indices, num_valid_sites>>

TrimVisitAny ==
    /\ pass = "reordered"
    /\ \E idx \in Sites \ visited :
          /\ Visit(idx)
          /\ out_of_order' = (out_of_order \/ idx # NextSite)

ClearAnyNeighbor ==
    /\ pass = "reordered"
    /\ stack # <<>> /\ Top.at = "loop"
    /\ \E h \in (1..Len(Hoppings(Top.site))) \ Top.done :
          /\ ClearNeighbor(h)
          /\ out_of_order' = (out_of_order \/ h # NextHopping)

NextAnyOrder ==
    \/ TrimBegin
    \/ TrimVisit
    \/ ClearEnter
    \/ ClearNextNeighbor
    \/ ClearFinish
    \/ TrimEnd
    \/ Retrim
    \/ TrimVisitAny
    \/ ClearAnyNeighbor

\* every is_valid array of the small boxes; the orders multiply the states
InitAnyOrder == InitBoxes(MaxSitesAnyOrder)

SpecAnyOrder == InitAnyOrder /\ [][NextAnyOrder]_vars

(***************************************************************************)
(* Notions the properties are stated with.                                 *)
(***************************************************************************)
AllHoppings(idx) == 1..Len(Hoppings(idx))

\* the neighbours of a site counted again: in the box and valid
Recount(idx) ==
    Cardinality({h \in AllHoppings(idx) :
                    HasNeighbor(idx, h) /\ is_valid[Neighbor(idx, h)]})

\* site t has a hopping rule whose target is site idx
Targets(t, idx) == \E h \in AllHoppings(t) : HasNeighbor(t, h) /\ Neighbor(t, h) = idx

ValidSites == {idx \in Sites : is_valid[idx]}
Invalidated == {idx \in Sites : init_valid[idx] /\ ~is_valid[idx]}

\* this step is the iteration of for_each_neighbour for hopping h of the innermost call
TakesHopping(h) ==
    /\ pc = "trim" /\ stack # <<>> /\ Top.at = "loop"
    /\ h \in AllHoppings(Top.site) \ Top.done
    /\ Len(stack') >= Len(stack)
    /\ stack'[Len(stack)].done = Top.done \cup {h}

\* this step is the return of the innermost call after its loop
Returns ==
    /\ pc = "trim" /\ stack # <<>> /\ Top.at = "loop"
    /\ Len(stack') < Len(stack)

\* this step calls clear_neighbors on site n from inside the loop
RecursesInto(n) ==
    /\ stack # <<>>
    /\ Len(stack') = Len(stack) + 1
    /\ stack'[Len(stack')] = Frame(n)

(***************************************************************************)
(* C1. After trim_edges every site that is still valid has at least        *)
(* lattice.min_neighbours neighbours that are in the box and valid,        *)
(* counted again from its hopping rules and the final is_valid.            *)
(***************************************************************************)
MinNeighboursAfterTrim ==
    pc = "trimmed" => \A idx \in Sites : is_valid[idx] => Recount(idx) >= lattice.min_neighbours

(***************************************************************************)
(* C2. HamiltonianIndices: indices is -1 exactly at the invalid sites, the *)
(* values of the valid sites rise strictly with the flat index and are     *)
(* exactly 0 .. num_valid_sites - 1, and num_valid_sites is the number of  *)
(* valid sites.                                                            *)
(***************************************************************************)
IndicesDenseAndOrdered ==
    pc = "indexed" =>
        /\ \A idx \in Sites : (indices[idx] = -1) <=> ~is_valid[idx]
        /\ \A s, t \in ValidSites : s < t => indices[s] < indices[t]
        /\ {indices[idx] : idx \in ValidSites} = 0 .. (num_valid_sites - 1)
        /\ num_valid_sites = Cardinality(ValidSites)

\* C2, witness: indexed, two or more valid sites, a valid site after an invalid one.
IndicesWitness ==
    /\ pc = "indexed"
    /\ num_valid_sites >= 2
    /\ \E s, t \in Sites : s < t /\ ~is_valid[s] /\ is_valid[t]

(***************************************************************************)
(* C3. Trimming is idempotent: a second trim_edges on the result of the    *)
(* first leaves is_valid as the first left it.  As claimed, for every set  *)
(* of hopping rules; as amended, for the lattices whose every hopping rule *)
(* has its reverse rule.                                                   *)
(***************************************************************************)
\* C3 as claimed: for every set of hopping rules, the second trim_edges leaves
\* is_valid as the first left it.
SecondTrimChangesNothing ==
    (pc = "trimmed" /\ pass = "second") => is_valid = first_valid

\* C3 as amended: for the lattices whose every hopping rule has its reverse rule,
\* the second trim_edges leaves is_valid as the first left it.
SecondTrimChangesNothingIfSymmetric ==
    (pc = "trimmed" /\ pass = "second" /\ Symmetric(lattice)) => is_valid = first_valid

\* C3, witness: the second pass has ended on a symmetric lattice whose first pass
\* trimmed a site and kept a site.
SecondTrimWitness ==
    /\ pc = "trimmed" /\ pass = "second" /\ Symmetric(lattice)
    /\ is_valid = first_valid
    /\ ValidSites # {}
    /\ Invalidated # {}

(***************************************************************************)
(* C4. The final is_valid does not depend on the order in which the loop   *)
(* of trim_edges visits the sites, nor on the order in which               *)
(* clear_neighbors visits the neighbours of a site: every order ends in    *)
(* the is_valid the flat-index order ends in.                              *)
(***************************************************************************)
OrderIndependent ==
    (pc = "trimmed" /\ pass = "reordered") => is_valid = first_valid

\* C4, witness: a pass that took a site or a hopping out of its turn has ended, and
\* it invalidated a site that no initially invalid site has a rule to (a cascade).
OrderWitness ==
    /\ pc = "trimmed" /\ pass = "reordered" /\ out_of_order
    /\ \E idx \in Invalidated : ~(\E t \in Sites : ~init_valid[t] /\ Targets(t, idx))

(***************************************************************************)
(* C5. During the pass is_valid only changes from true to false, and no    *)
(* entry of neighbor_count increases.  As claimed, for every lattice; as   *)
(* amended, the counts for the lattices whose every hopping rule has its   *)
(* reverse rule.                                                           *)
(***************************************************************************)
ValidityFalls == \A idx \in Sites : is_valid'[idx] => is_valid[idx]
CountsFall == \A idx \in Sites : neighbor_count'[idx] <= neighbor_count[idx]

\* C5 as claimed: in every step of the pass is_valid only falls and no entry of
\* neighbor_count increases, for every lattice.
ValidityAndCountsFall ==
    [][pc = "trim" => (ValidityFalls /\ CountsFall)]_vars

\* C5 as amended: in every step of the pass is_valid only falls; no entry of
\* neighbor_count increases when every hopping rule has its reverse rule.
ValidityFallsCountsFallIfSymmetric ==
    [][pc = "trim" => (ValidityFalls /\ (Symmetric(lattice) => CountsFall))]_vars

\* C5, witness: inside the pass on a symmetric lattice, a site trimmed and the count
\* of a valid site decremented.
MonotoneWitness ==
    /\ pc = "trim" /\ Symmetric(lattice)
    /\ Invalidated # {}
    /\ \E idx \in ValidSites : neighbor_count[idx] < count_neighbors[idx]

(***************************************************************************)
(* C6. The pass terminates, and in one pass each site runs the neighbour   *)
(* loop of clear_neighbors at most once: a call from inside the loop is    *)
(* made on a site only in the step that turns it from valid to invalid,    *)
(* and the count of a site is 0 when its call returns.                     *)
(***************************************************************************)
InLoop(idx) == \E k \in 1..Len(stack) : stack[k].site = idx /\ stack[k].at = "loop"

PropagatesOnce ==
    \A idx \in Sites :
        /\ propagated[idx] <= 1
        /\ (pc \in {"trim", "trimmed"} /\ propagated[idx] = 1 /\ ~InLoop(idx))
              => neighbor_count[idx] = 0

RecursionOnlyOnFlip ==
    \A n \in Sites : (pc = "trim" /\ RecursesInto(n)) => (is_valid[n] /\ ~is_valid'[n])

\* C6: every pass that has begun ends; each site runs the neighbour loop at most
\* once in a pass and has count 0 after it; a call from inside the loop is made on
\* a site only in the step that turns it from valid to invalid.
TrimTerminates ==
    /\ (pc = "trim") ~> (pc = "trimmed")
    /\ []PropagatesOnce
    /\ [][RecursionOnlyOnFlip]_vars

\* C6, witness: a pass has ended in which one trimmed site ran the neighbour loop
\* and another returned at once.
TerminatesWitness ==
    /\ pc = "trimmed"
    /\ \E idx \in Invalidated : propagated[idx] = 1
    /\ \E idx \in Invalidated : propagated[idx] = 0

(***************************************************************************)
(* C7. The chain of 5 cells (hoppings +1 and -1), all sites valid,         *)
(* min_neighbours = 2: trimming invalidates the two endpoints, keeps the   *)
(* three interior sites, and leaves 3 valid sites.                         *)
(***************************************************************************)
ChainScenario ==
    /\ lattice = MakeLattice(ChainHoppings, 2)
    /\ size = <<5, 1, 1>>
    /\ \A idx \in Sites : init_valid[idx]

\* C7: after the trim of the all-valid chain of 5 cells with min_neighbours = 2 the
\* endpoints 0 and 4 are invalid, the sites 1, 2, 3 valid: 3 valid sites.
ChainEndpointsTrimmed ==
    (pc = "trimmed" /\ ChainScenario) =>
        /\ is_valid = [idx \in Sites |-> idx \notin {0, 4}]
        /\ Cardinality(ValidSites) = 3

(***************************************************************************)
(* C8. The square lattice box (four hoppings), min_neighbours = 3, exactly *)
(* one corner invalid before the trim.  As claimed: the trim invalidates   *)
(* the two neighbours of that corner and no other site, indices is -1 at   *)
(* exactly those three sites and num_valid_sites = num_sites - 3.  As      *)
(* amended: the trim invalidates every site of the box, indices is -1      *)
(* everywhere and num_valid_sites = 0.                                     *)
(***************************************************************************)
InvalidCorner == CHOOSE c \in Corners(size) : ~init_valid[c]

CornerScenario ==
    /\ lattice = MakeLattice(SquareHoppings, 3)
    /\ size[1] >= 2 /\ size[2] >= 2
    /\ \E c \in Corners(size) : \A idx \in Sites : init_valid[idx] <=> idx # c

IndexedAfterTrim == pc = "indexed" /\ visited = Sites

\* C8 as claimed: exactly the corner and its two neighbours have index -1, and
\* num_valid_sites = num_sites - 3.
CornerTrimsThree ==
    (IndexedAfterTrim /\ CornerScenario) =>
        /\ {idx \in Sites : indices[idx] = -1}
              = {InvalidCorner} \cup {idx \in Sites : Targets(InvalidCorner, idx)}
        /\ num_valid_sites = num_sites - 3

\* C8 as amended: every site of the box is invalid and has index -1, and
\* num_valid_sites = 0.
CornerTrimsAll ==
    (IndexedAfterTrim /\ CornerScenario) =>
        /\ \A idx \in Sites : indices[idx] = -1 /\ ~is_valid[idx]
        /\ num_valid_sites = 0

\* C8, witness: the 3 x 3 box with its last corner invalid, trimmed and indexed.
CornerWitness ==
    /\ IndexedAfterTrim /\ CornerScenario
    /\ size = <<3, 3, 1>>
    /\ InvalidCorner = 8
    /\ num_valid_sites = 0

(***************************************************************************)
(* C9. clear_neighbors on a site whose count is not 0.  As claimed: it     *)
(* decrements the count of each neighbour in the box, one decrement per    *)
(* hopping rule, whatever the validity of the neighbour; when the count    *)
(* has dropped below min_neighbours it marks the neighbour invalid and     *)
(* recurses into it; it sets the own count to 0 at the end.  As amended:   *)
(* the same for the neighbours that are valid when their hopping is        *)
(* reached; a neighbour that is invalid then is skipped, its count and     *)
(* validity untouched and no call made.                                    *)
(***************************************************************************)
OthersUntouched(n) ==
    \A idx \in Sites \ {n} :
        neighbor_count'[idx] = neighbor_count[idx] /\ is_valid'[idx] = is_valid[idx]

DecrementsAndRecurses(n) ==
    /\ neighbor_count'[n] = neighbor_count[n] - 1
    /\ IF neighbor_count'[n] < lattice.min_neighbours
         THEN ~is_valid'[n] /\ RecursesInto(n)
         ELSE is_valid'[n] = is_valid[n] /\ Len(stack') = Len(stack)
    /\ OthersUntouched(n)

Skips == UNCHANGED <<is_valid, neighbor_count>> /\ Len(stack') = Len(stack)

ReturnClearsOwnCount ==
    Returns => /\ neighbor_count' = [neighbor_count EXCEPT ![Top.site] = 0]
               /\ UNCHANGED is_valid
               /\ Top.done = AllHoppings(Top.site)

ClearStepAsClaimed ==
    (pc = "trim" /\ stack # <<>> /\ Top.at = "loop") =>
        /\ \A h \in AllHoppings(Top.site) :
              TakesHopping(h) =>
                  IF HasNeighbor(Top.site, h)
                    THEN DecrementsAndRecurses(Neighbor(Top.site, h))
                    ELSE Skips
        /\ ReturnClearsOwnCount

ClearStepAmended ==
    (pc = "trim" /\ stack # <<>> /\ Top.at = "loop") =>
        /\ \A h \in AllHoppings(Top.site) :
              TakesHopping(h) =>
                  IF HasNeighbor(Top.site, h) /\ is_valid[Neighbor(Top.site, h)]
                    THEN DecrementsAndRecurses(Neighbor(Top.site, h))
                    ELSE Skips
        /\ ReturnClearsOwnCount

\* C9 as claimed: every neighbour in the box is decremented, valid or not.
ClearDecrementsEveryNeighbour == [][ClearStepAsClaimed]_vars

\* C9 as amended: the neighbours valid when reached are decremented (and trimmed
\* and recursed into below min_neighbours); the invalid ones are skipped; the own
\* count is 0 at the return.
ClearDecrementsValidNeighbours == [][ClearStepAmended]_vars

\* C9, witness: inside a recursive call, the outermost call having skipped an
\* initially invalid neighbour, with the count of a valid site decremented.
ClearWitness ==
    /\ pc = "trim" /\ pass = "first"
    /\ Len(stack) >= 2
    /\ \E h \in stack[1].done :
          /\ HasNeighbor(stack[1].site, h)
          /\ ~init_valid[Neighbor(stack[1].site, h)]
    /\ \E idx \in ValidSites : neighbor_count[idx] < count_neighbors[idx]

(***************************************************************************)
(* C10. The pass invalidates a valid site only in the step in which an     *)
(* invalid site with a hopping rule to it takes that hopping; a valid site *)
(* that no invalid site has a rule to stays valid, whatever its count; and *)
(* a pass over a Foundation whose sites are all valid changes neither      *)
(* is_valid nor any neighbour count.                                       *)
(***************************************************************************)
Untargeted(idx) == ~(\E t \in Sites : ~is_valid[t] /\ Targets(t, idx))

InvalidatedByPropagation ==
    \A idx \in Sites :
        (is_valid[idx] /\ ~is_valid'[idx]) =>
            /\ stack # <<>> /\ Top.at = "loop" /\ ~is_valid[Top.site]
            /\ \E h \in AllHoppings(Top.site) :
                  TakesHopping(h) /\ HasNeighbor(Top.site, h) /\ Neighbor(Top.site, h) = idx

TrimmedFrame ==
    pc = "trimmed" =>
        /\ \A idx \in Sites : (init_valid[idx] /\ Untargeted(idx)) => is_valid[idx]
        /\ (\A idx \in Sites : init_valid[idx]) =>
              (is_valid = init_valid /\ neighbor_count = count_neighbors)

\* C10: a site turns invalid only in the step in which an invalid site takes a
\* hopping to it; at the end of the pass every untargeted site is still valid, and
\* an all-valid Foundation has its is_valid and counts unchanged.
TrimsOnlyByPropagation == [][InvalidatedByPropagation /\ TrimmedFrame']_vars

\* C10, witness: the first pass has ended with a valid site whose count in the box
\* is below min_neighbours, which has a neighbour, and which no invalid site targets.
UntargetedWitness ==
    /\ pc = "trimmed" /\ pass = "first"
    /\ \E idx \in ValidSites :
          /\ count_neighbors[idx] < lattice.min_neighbours
          /\ Untargeted(idx)
          /\ \E h \in AllHoppings(idx) : HasNeighbor(idx, h)

====
